---------------------------- MODULE Spec2Model ----------------------------
(***************************************************************************)
(* SSP Realty backend (src/src/index.ts): the admin login, the JWT gate    *)
(* verifyToken, and the CRUD routes over the four mongoose collections     *)
(* Property, TeamMember, Contact and Lead.                                 *)
(*                                                                         *)
(* One action per Express route.  A protected route's action is the whole  *)
(* middleware chain: verifyToken, then the handler with its try/catch.     *)
(* The clock is Date.now() in milliseconds; jsonwebtoken reads it in whole *)
(* seconds (Math.floor(Date.now() / 1000)).                                *)
(*                                                                         *)
(* Only the schema fields that the routes' behaviour depends on are kept:  *)
(* the external id, one ordinary String field (title / name) and, for      *)
(* Contact and Lead, created_at.  A document is a function from the names  *)
(* of the fields it has to their values, so a missing field is a name      *)
(* outside its DOMAIN.  A collection is the sequence of its documents in   *)
(* insertion (natural) order.                                              *)
(***************************************************************************)
EXTENDS Integers, Sequences, FiniteSets, TLC

VARIABLES
  now,                  \* Date.now(), milliseconds
  ADMIN_PASSWORD_HASH,  \* process.env.ADMIN_PASSWORD_HASH || ""
  issued,               \* the tokens login has handed out, each with its time
  Property,             \* the collections
  TeamMember,
  Contact,
  Lead,
  req,                  \* the request being served
  res                   \* its response, until it is sent

store == <<Property, TeamMember, Contact, Lead>>
vars == <<now, ADMIN_PASSWORD_HASH, issued, Property, TeamMember, Contact, Lead, req, res>>

---------------------------------------------------------------------------
(* Bounds of the model *)

MaxDay    == 1    \* the clock is observed on days 0..MaxDay
MaxDocs   == 2    \* documents stored, under Spec
MaxCatalogDocs == 3   \* documents stored, under SpecCatalog
MaxFormDocs == 3      \* documents stored, under SpecForms
MaxTokens == 2    \* tokens handed out

(* Program constants *)

MsPerSec  == 1000       \* jsonwebtoken: Math.floor(Date.now() / 1000)
SecPerDay == 86400      \* expiresIn: "24h"
MsPerDay  == SecPerDay * MsPerSec

ADMIN_EMAIL == "admin@ssprealty.com"
JWT_SECRET  == "ssp-realty-jwt-secret-key-change-in-production"

(* The password whose bcrypt hash a configured ADMIN_PASSWORD_HASH holds. *)
AdminPassword == "s3cret"
ConfiguredHash == "$2a$10$hash-of-s3cret"

---------------------------------------------------------------------------
(* The clock *)

(* The clock is read at the last millisecond of a second and at the first  *)
(* millisecond of the next one, on each of the days 0..MaxDay.               *)
StartSec == 1
StartMs == StartSec * MsPerSec + (MsPerSec - 1)
Instants ==
  { (StartSec + d * SecPerDay) * MsPerSec + o :
       d \in 0..MaxDay, o \in {MsPerSec - 1, MsPerSec} }

(* Math.floor(Date.now() / 1000) *)
NowSec(ms) == ms \div MsPerSec

---------------------------------------------------------------------------
(* Documents and request bodies *)

Has(d, f) == f \in DOMAIN d
Empty == [f \in {} |-> ""]

(* mongoose's update of a document by a plain body: $set of the body's fields *)
Merge(doc, body) ==
  [f \in DOMAIN doc \cup DOMAIN body |-> IF f \in DOMAIN body THEN body[f] ELSE doc[f]]

Ids    == {"1", "2"}
Titles == {"a"}
Names  == {"Alice"}

PropertyBodies ==
  {Empty} \cup {[id |-> i] : i \in Ids} \cup {[title |-> t] : t \in Titles}
          \cup {[id |-> i, title |-> t] : i \in Ids, t \in Titles}

TeamBodies ==
  {Empty} \cup {[id |-> i] : i \in Ids} \cup {[name |-> n] : n \in Names}
          \cup {[id |-> i, name |-> n] : i \in Ids, n \in Names}

(* A public form's body: it may carry an id and a created_at of its own. *)
BodyIds   == {"", "x"}
PastDate  == 0
FormBodies ==
  {[name |-> "Bob"]} \cup {[name |-> "Bob", id |-> i] : i \in BodyIds}
     \cup {[name |-> "Bob", created_at |-> PastDate]}
     \cup {[name |-> "Bob", id |-> i, created_at |-> PastDate] : i \in BodyIds}

LoginBodies ==
  {Empty}
    \cup {[email |-> e] : e \in {ADMIN_EMAIL, "eve@x.com"}}
    \cup {[password |-> p] : p \in {AdminPassword, "guess"}}
    \cup {[email |-> e, password |-> p] :
            e \in {ADMIN_EMAIL, "eve@x.com"}, p \in {AdminPassword, "guess"}}

---------------------------------------------------------------------------
(* Tokens and the Authorization header *)

(* jwt.sign({email, role}, JWT_SECRET, {expiresIn: "24h"}) at clock ms:      *)
(* iat is the clock in whole seconds, exp is iat plus the span.               *)
jwtSign(ms) ==
  [iat |-> NowSec(ms), exp |-> NowSec(ms) + SecPerDay, sig |-> JWT_SECRET]

(* Mutant: a token is still good at the second it expires. *)
jwtVerifyLate(token, ms) ==
  /\ Has(token, "sig")
  /\ token.sig = JWT_SECRET
  /\ ~(NowSec(ms) > token.exp)

(* jwt.verify(token, JWT_SECRET) at clock ms does not throw: the token is a   *)
(* JWT, its signature is JWT_SECRET's, and the clock has not reached exp.     *)
jwtVerify(token, ms) ==
  /\ Has(token, "sig")
  /\ token.sig = JWT_SECRET
  /\ ~(NowSec(ms) >= token.exp)

(* A word of a header that is not a JWT (a scheme name, "", any other text). *)
Word(s) == [text |-> s]
(* What indexing past the end of split(" ") gives. *)
undefined == [undefined |-> TRUE]
(* JavaScript's !token: undefined and "" are falsy. *)
Falsy(v) == v = undefined \/ v = Word("")

(* A token signed with another key, or altered after signing. *)
Forged(ms) ==
  { [iat |-> NowSec(ms), exp |-> NowSec(ms) + SecPerDay, sig |-> "not-the-secret"] }

(* The tokens a client can send at clock ms: the ones login handed out,      *)
(* forged ones, and text that is no JWT.                                      *)
Presentable(ms) == {e.token : e \in issued} \cup Forged(ms) \cup {Word("abc")}

(* req.headers.authorization, as the parts split(" ") cuts it into; <<>> is  *)
(* the absent header.                                                         *)
AuthHeaders(ms) ==
  {<< >>} \cup {<<Word("Bearer")>>} \cup {<<Word("Bearer"), Word("")>>}
    \cup {<<t>> : t \in Presentable(ms)}
    \cup {<<Word(s), t>> : s \in {"Bearer", "Basic"}, t \in Presentable(ms)}

(* req.headers.authorization?.split(" ")[1] *)
SecondPart(authorization) ==
  IF Len(authorization) >= 2 THEN authorization[2] ELSE undefined

NoTokenProvided == "No token provided"
InvalidToken    == "Invalid token"

(* Mutant: the token is only decoded (jwt.decode), never verified. *)
verifyTokenDecodeOnly(authorization, ms) ==
  LET token == SecondPart(authorization) IN
  IF Falsy(token) THEN NoTokenProvided
  ELSE IF Has(token, "sig") THEN "next"
  ELSE InvalidToken

(* The middleware: "next" when it calls next(), else the error of its 401.   *)
verifyToken(authorization, ms) ==
  LET token == SecondPart(authorization) IN
  IF Falsy(token) THEN NoTokenProvided
  ELSE IF jwtVerify(token, ms) THEN "next"
  ELSE InvalidToken

---------------------------------------------------------------------------
(* Responses *)

(* The request being served: its route, its Authorization header, its :id, *)
(* its body, whether the store answers the handler's operation (storeOk),  *)
(* and n, the number of documents that operation matched.                   *)
Request(r, authorization, id, body, storeOk, n) ==
  [route |-> r, authorization |-> authorization, id |-> id, body |-> body,
   storeOk |-> storeOk, n |-> n]
NoRequest == Request("", << >>, "", Empty, TRUE, 0)

(* res.status(s).json({error: msg}) *)
Err(s, msg) == [status |-> s, success |-> FALSE, error |-> msg, data |-> << >>]
(* res.json({success: true}) and res.json({success: true, data}) *)
Success(data) == [status |-> 200, success |-> TRUE, error |-> "", data |-> data]
(* res.json(list) and res.json(document): the raw value *)
Raw(data) == [status |-> 200, success |-> FALSE, error |-> "", data |-> data]

---------------------------------------------------------------------------
(* Initial state: the process has started, nothing is stored, no request    *)
(* has been served.  ADMIN_PASSWORD_HASH comes from the environment.        *)

Init ==
  /\ now = StartMs
  /\ ADMIN_PASSWORD_HASH \in {"", ConfiguredHash}
  /\ issued = {}
  /\ Property = << >>
  /\ TeamMember = << >>
  /\ Contact = << >>
  /\ Lead = << >>
  /\ req = NoRequest
  /\ res = [status |-> 0, success |-> FALSE, error |-> "", data |-> << >>]

(* Time passes. *)
Tick ==
  /\ \E t \in Instants : t > now /\ now' = t
  /\ UNCHANGED <<ADMIN_PASSWORD_HASH, issued, store, req, res>>

---------------------------------------------------------------------------
(* POST /api/auth/login *)

InvalidCredentials   == "Invalid email or password"
ConfigurationMissing ==
  "Admin password not configured. Please set ADMIN_PASSWORD_HASH in .env"
LoginFailed          == "Login failed"

(* bcrypt.compare(password, hash) resolves true *)
bcryptCompare(password, hash) == hash = ConfiguredHash /\ password = AdminPassword

(* Mutant: the configuration is checked before the email. *)
LoginOutcomeHashFirst(body, hash, ms) ==
  IF hash = ""
    THEN [res |-> Err(401, ConfigurationMissing), tokens |-> {}]
  ELSE IF ~(Has(body, "email") /\ body.email = ADMIN_EMAIL)
    THEN [res |-> Err(401, InvalidCredentials), tokens |-> {}]
  ELSE IF ~Has(body, "password")
    THEN [res |-> Err(500, LoginFailed), tokens |-> {}]
  ELSE IF ~bcryptCompare(body.password, hash)
    THEN [res |-> Err(401, InvalidCredentials), tokens |-> {}]
  ELSE [res |-> Success(<<jwtSign(ms)>>), tokens |-> {jwtSign(ms)}]

(* The outcome of the handler for a body: the response, and the token it    *)
(* signs (none when the response is an error).                               *)
LoginOutcome(body, hash, ms) ==
  IF ~(Has(body, "email") /\ body.email = ADMIN_EMAIL)
    THEN [res |-> Err(401, InvalidCredentials), tokens |-> {}]
  ELSE IF hash = ""
    THEN [res |-> Err(401, ConfigurationMissing), tokens |-> {}]
  ELSE IF ~Has(body, "password")
    \* bcrypt.compare(undefined, hash) rejects ("Illegal arguments"): the catch
    THEN [res |-> Err(500, LoginFailed), tokens |-> {}]
  ELSE IF ~bcryptCompare(body.password, hash)
    THEN [res |-> Err(401, InvalidCredentials), tokens |-> {}]
  ELSE [res |-> Success(<<jwtSign(ms)>>), tokens |-> {jwtSign(ms)}]

Login(body) ==
  LET out == LoginOutcome(body, ADMIN_PASSWORD_HASH, now) IN
  /\ req' = Request("POST /api/auth/login", << >>, "", body, TRUE, 0)
  /\ res' = out.res
  /\ issued' = issued \cup {[token |-> t, at |-> now] : t \in out.tokens}
  /\ UNCHANGED <<now, ADMIN_PASSWORD_HASH, store>>

---------------------------------------------------------------------------
(* The store's operations, each as the set of results it can give.  Where   *)
(* several documents carry the external id the filter names, which of them  *)
(* a single-document operation takes is the store's choice.                 *)

(* The documents of coll that the filter {id: id} matches, by position. *)
Matches(coll, id) == {i \in DOMAIN coll : Has(coll[i], "id") /\ coll[i].id = id}

RemoveAt(coll, i) == SubSeq(coll, 1, i - 1) \o SubSeq(coll, i + 1, Len(coll))

(* new Model(doc).save() *)
save(coll, doc) == Append(coll, doc)

(* Model.findOne({id}): << >> is null *)
findOne(coll, id) ==
  IF Matches(coll, id) = {} THEN { << >> }
  ELSE { <<coll[i]>> : i \in Matches(coll, id) }

(* Mutant: the update is an upsert. *)
findOneAndUpdateUpsert(coll, id, body) ==
  IF Matches(coll, id) = {}
    THEN { [coll |-> Append(coll, Merge([id |-> id], body)),
            doc  |-> <<Merge([id |-> id], body)>>] }
  ELSE { [coll |-> [coll EXCEPT ![i] = Merge(@, body)],
          doc  |-> <<Merge(coll[i], body)>>] : i \in Matches(coll, id) }

(* Model.findOneAndUpdate({id}, body, {new: true}): the collection after,   *)
(* and the updated document (<< >> is null: nothing matched, no upsert).     *)
findOneAndUpdate(coll, id, body) ==
  IF Matches(coll, id) = {} THEN { [coll |-> coll, doc |-> << >>] }
  ELSE { [coll |-> [coll EXCEPT ![i] = Merge(@, body)],
          doc  |-> <<Merge(coll[i], body)>>] : i \in Matches(coll, id) }

(* Model.deleteOne({id}): the collection after, and deletedCount *)
deleteOne(coll, id) ==
  IF Matches(coll, id) = {} THEN { [coll |-> coll, n |-> 0] }
  ELSE { [coll |-> RemoveAt(coll, i), n |-> 1] : i \in Matches(coll, id) }

(* Model.find().sort({created_at: -1}): every order of the documents that   *)
(* is non-increasing in created_at (the order among equal keys is the       *)
(* store's choice).                                                          *)
Injective(p) == \A i, j \in DOMAIN p : p[i] = p[j] => i = j
sortDesc(coll) ==
  { [k \in DOMAIN coll |-> coll[p[k]]] :
      p \in { q \in [DOMAIN coll -> DOMAIN coll] :
                /\ Injective(q)
                /\ \A i, j \in DOMAIN coll :
                     i < j => coll[q[i]].created_at >= coll[q[j]].created_at } }

---------------------------------------------------------------------------
(* /api/properties *)

GetProperties(storeOk) ==
  /\ req' = Request("GET /api/properties", << >>, "", Empty, storeOk, 0)
  /\ res' = IF storeOk THEN Raw(Property) ELSE Err(500, "Failed to fetch properties")
  /\ UNCHANGED <<now, ADMIN_PASSWORD_HASH, issued, store>>

PostProperty(authorization, body, storeOk) ==
  /\ req' = Request("POST /api/properties", authorization, "", body, storeOk, 0)
  /\ IF verifyToken(authorization, now) # "next"
       THEN /\ res' = Err(401, verifyToken(authorization, now))
            /\ UNCHANGED Property
     ELSE IF ~storeOk
       THEN /\ res' = Err(500, "Failed to create property")
            /\ UNCHANGED Property
     ELSE /\ Property' = save(Property, body)
          /\ res' = Success(<<body>>)
  /\ UNCHANGED <<now, ADMIN_PASSWORD_HASH, issued, TeamMember, Contact, Lead>>

GetProperty(id, storeOk) ==
  /\ IF ~storeOk
       THEN /\ res' = Err(500, "Failed to fetch property")
            /\ req' = Request("GET /api/properties/:id", << >>, id, Empty, storeOk, 0)
     ELSE \E found \in findOne(Property, id) :
            /\ req' = Request("GET /api/properties/:id", << >>, id, Empty, storeOk, Len(found))
            /\ res' = IF found = << >> THEN Err(404, "Property not found")
                      ELSE Raw(found)
  /\ UNCHANGED <<now, ADMIN_PASSWORD_HASH, issued, store>>

PutProperty(authorization, id, body, storeOk) ==
  /\ IF verifyToken(authorization, now) # "next"
       THEN /\ res' = Err(401, verifyToken(authorization, now))
            /\ req' = Request("PUT /api/properties/:id", authorization, id, body, storeOk, 0)
            /\ UNCHANGED Property
     ELSE IF ~storeOk
       THEN /\ res' = Err(500, "Failed to update property")
            /\ req' = Request("PUT /api/properties/:id", authorization, id, body, storeOk, 0)
            /\ UNCHANGED Property
     ELSE \E r \in findOneAndUpdate(Property, id, body) :
            /\ Property' = r.coll
            /\ req' = Request("PUT /api/properties/:id", authorization, id, body, storeOk, Len(r.doc))
            /\ res' = Success(<< >>)
  /\ UNCHANGED <<now, ADMIN_PASSWORD_HASH, issued, TeamMember, Contact, Lead>>

DeleteProperty(authorization, id, storeOk) ==
  /\ IF verifyToken(authorization, now) # "next"
       THEN /\ res' = Err(401, verifyToken(authorization, now))
            /\ req' = Request("DELETE /api/properties/:id", authorization, id, Empty, storeOk, 0)
            /\ UNCHANGED Property
     ELSE IF ~storeOk
       THEN /\ res' = Err(500, "Failed to delete property")
            /\ req' = Request("DELETE /api/properties/:id", authorization, id, Empty, storeOk, 0)
            /\ UNCHANGED Property
     ELSE \E r \in deleteOne(Property, id) :
            /\ Property' = r.coll
            /\ req' = Request("DELETE /api/properties/:id", authorization, id, Empty, storeOk, r.n)
            /\ res' = Success(<< >>)
  /\ UNCHANGED <<now, ADMIN_PASSWORD_HASH, issued, TeamMember, Contact, Lead>>

---------------------------------------------------------------------------
(* /api/team *)

GetTeam(storeOk) ==
  /\ req' = Request("GET /api/team", << >>, "", Empty, storeOk, 0)
  /\ res' = IF storeOk THEN Raw(TeamMember) ELSE Err(500, "Failed to fetch team")
  /\ UNCHANGED <<now, ADMIN_PASSWORD_HASH, issued, store>>

PostTeam(authorization, body, storeOk) ==
  /\ req' = Request("POST /api/team", authorization, "", body, storeOk, 0)
  /\ IF verifyToken(authorization, now) # "next"
       THEN /\ res' = Err(401, verifyToken(authorization, now))
            /\ UNCHANGED TeamMember
     ELSE IF ~storeOk
       THEN /\ res' = Err(500, "Failed to create team member")
            /\ UNCHANGED TeamMember
     ELSE /\ TeamMember' = save(TeamMember, body)
          /\ res' = Success(<<body>>)
  /\ UNCHANGED <<now, ADMIN_PASSWORD_HASH, issued, Property, Contact, Lead>>

PutTeam(authorization, id, body, storeOk) ==
  /\ IF verifyToken(authorization, now) # "next"
       THEN /\ res' = Err(401, verifyToken(authorization, now))
            /\ req' = Request("PUT /api/team/:id", authorization, id, body, storeOk, 0)
            /\ UNCHANGED TeamMember
     ELSE IF ~storeOk
       THEN /\ res' = Err(500, "Failed to update team member")
            /\ req' = Request("PUT /api/team/:id", authorization, id, body, storeOk, 0)
            /\ UNCHANGED TeamMember
     ELSE \E r \in findOneAndUpdate(TeamMember, id, body) :
            /\ TeamMember' = r.coll
            /\ req' = Request("PUT /api/team/:id", authorization, id, body, storeOk, Len(r.doc))
            /\ res' = IF r.doc = << >> THEN Err(404, "Team member not found")
                      ELSE Success(r.doc)
  /\ UNCHANGED <<now, ADMIN_PASSWORD_HASH, issued, Property, Contact, Lead>>

(* Mutant: a DELETE that removed nothing is a 404. *)
DeleteTeamNotFound(authorization, id, storeOk) ==
  /\ IF verifyToken(authorization, now) # "next"
       THEN /\ res' = Err(401, verifyToken(authorization, now))
            /\ req' = Request("DELETE /api/team/:id", authorization, id, Empty, storeOk, 0)
            /\ UNCHANGED TeamMember
     ELSE IF ~storeOk
       THEN /\ res' = Err(500, "Failed to delete team member")
            /\ req' = Request("DELETE /api/team/:id", authorization, id, Empty, storeOk, 0)
            /\ UNCHANGED TeamMember
     ELSE \E r \in deleteOne(TeamMember, id) :
            /\ TeamMember' = r.coll
            /\ req' = Request("DELETE /api/team/:id", authorization, id, Empty, storeOk, r.n)
            /\ res' = IF r.n = 0 THEN Err(404, "Team member not found")
                      ELSE Success(<< >>)
  /\ UNCHANGED <<now, ADMIN_PASSWORD_HASH, issued, Property, Contact, Lead>>

DeleteTeam(authorization, id, storeOk) ==
  /\ IF verifyToken(authorization, now) # "next"
       THEN /\ res' = Err(401, verifyToken(authorization, now))
            /\ req' = Request("DELETE /api/team/:id", authorization, id, Empty, storeOk, 0)
            /\ UNCHANGED TeamMember
     ELSE IF ~storeOk
       THEN /\ res' = Err(500, "Failed to delete team member")
            /\ req' = Request("DELETE /api/team/:id", authorization, id, Empty, storeOk, 0)
            /\ UNCHANGED TeamMember
     ELSE \E r \in deleteOne(TeamMember, id) :
            /\ TeamMember' = r.coll
            /\ req' = Request("DELETE /api/team/:id", authorization, id, Empty, storeOk, r.n)
            /\ res' = Success(<< >>)
  /\ UNCHANGED <<now, ADMIN_PASSWORD_HASH, issued, Property, Contact, Lead>>

---------------------------------------------------------------------------
(* /api/contact and /api/leads *)

(* Mutant: the body is spread after the id, so its own id wins. *)
FormDocBodyWins(body, ms) ==
  LET withId == Merge([id |-> ToString(ms)], body) IN
  IF Has(withId, "created_at") THEN withId
  ELSE Merge(withId, [created_at |-> ms])

(* new Contact({...req.body, id: Date.now().toString()}) with the schema's  *)
(* default created_at: Date.now for a body that has none.                   *)
FormDoc(body, ms) ==
  LET withId == Merge(body, [id |-> ToString(ms)]) IN
  IF Has(withId, "created_at") THEN withId
  ELSE Merge(withId, [created_at |-> ms])

PostContact(body, storeOk) ==
  /\ req' = Request("POST /api/contact", << >>, "", body, storeOk, 0)
  /\ IF ~storeOk
       THEN /\ res' = Err(500, "Failed to submit contact form")
            /\ UNCHANGED Contact
     ELSE /\ Contact' = save(Contact, FormDoc(body, now))
          /\ res' = Success(<<FormDoc(body, now)>>)
  /\ UNCHANGED <<now, ADMIN_PASSWORD_HASH, issued, Property, TeamMember, Lead>>

GetContact(storeOk) ==
  /\ req' = Request("GET /api/contact", << >>, "", Empty, storeOk, 0)
  /\ IF ~storeOk
       THEN res' = Err(500, "Failed to fetch contacts")
     ELSE \E list \in sortDesc(Contact) : res' = Raw(list)
  /\ UNCHANGED <<now, ADMIN_PASSWORD_HASH, issued, store>>

PostLead(body, storeOk) ==
  /\ req' = Request("POST /api/leads", << >>, "", body, storeOk, 0)
  /\ IF ~storeOk
       THEN /\ res' = Err(500, "Failed to submit lead form")
            /\ UNCHANGED Lead
     ELSE /\ Lead' = save(Lead, FormDoc(body, now))
          /\ res' = Success(<<FormDoc(body, now)>>)
  /\ UNCHANGED <<now, ADMIN_PASSWORD_HASH, issued, Property, TeamMember, Contact>>

GetLeads(authorization, storeOk) ==
  /\ req' = Request("GET /api/leads", authorization, "", Empty, storeOk, 0)
  /\ IF verifyToken(authorization, now) # "next"
       THEN res' = Err(401, verifyToken(authorization, now))
     ELSE IF ~storeOk
       THEN res' = Err(500, "Failed to fetch leads")
     ELSE \E list \in sortDesc(Lead) : res' = Raw(list)
  /\ UNCHANGED <<now, ADMIN_PASSWORD_HASH, issued, store>>

---------------------------------------------------------------------------
(* The system.  Requests are served one at a time: a handler awaits a       *)
(* single store operation, which the store applies atomically, so the       *)
(* interleavings of concurrent requests are the orders of whole handlers.   *)
(* res holds the response of the request just served until it is Sent.      *)

Idle == [status |-> 0, success |-> FALSE, error |-> "", data |-> << >>]

Sent ==
  /\ res # Idle
  /\ res' = Idle
  /\ req' = NoRequest
  /\ UNCHANGED <<now, ADMIN_PASSWORD_HASH, issued, store>>

Docs == Len(Property) + Len(TeamMember) + Len(Contact) + Len(Lead)

(* The headers of a client that follows the API: none, or Bearer <token>.   *)
ClientHeaders == {<< >>} \cup {<<Word("Bearer"), e.token>> : e \in issued}
AdminLogin == {[email |-> ADMIN_EMAIL, password |-> AdminPassword]}

(* Spec: login and the protected routes (with the public lead form, which   *)
(* fills the collection GET /api/leads reads), for any Authorization header *)
(* and any login body, as time passes; one kind of document per collection. *)
OneProperty == {[id |-> "1", title |-> "a"]}
OneTeam     == {[id |-> "1", name |-> "Alice"]}
OneForm     == {[name |-> "Bob"]}
OneId       == {"1"}

Bounded ==
  /\ Docs <= MaxDocs
  /\ Cardinality(issued) <= MaxTokens

Next ==
  \/ res = Idle /\ Tick
  \/ Sent
  \/ res = Idle /\ \E body \in LoginBodies : Login(body) /\ Bounded'
  \/ res = Idle /\ \E a \in AuthHeaders(now), body \in OneProperty, ok \in BOOLEAN :
       PostProperty(a, body, ok) /\ Bounded'
  \/ res = Idle /\ \E a \in AuthHeaders(now), id \in OneId, body \in OneProperty, ok \in BOOLEAN :
       PutProperty(a, id, body, ok)
  \/ res = Idle /\ \E a \in AuthHeaders(now), id \in OneId, ok \in BOOLEAN :
       DeleteProperty(a, id, ok)
  \/ res = Idle /\ \E a \in AuthHeaders(now), body \in OneTeam, ok \in BOOLEAN :
       PostTeam(a, body, ok) /\ Bounded'
  \/ res = Idle /\ \E a \in AuthHeaders(now), id \in OneId, body \in OneTeam, ok \in BOOLEAN :
       PutTeam(a, id, body, ok)
  \/ res = Idle /\ \E a \in AuthHeaders(now), id \in OneId, ok \in BOOLEAN :
       DeleteTeam(a, id, ok)
  \/ res = Idle /\ \E body \in OneForm, ok \in BOOLEAN : PostLead(body, ok) /\ Bounded'
  \/ res = Idle /\ \E a \in AuthHeaders(now), ok \in BOOLEAN : GetLeads(a, ok)

Spec == Init /\ [][Next]_vars

(* SpecCatalog: the Property and TeamMember routes with every body and id,  *)
(* for an admin who logs in and a client without a token.                   *)
CatalogBounded ==
  /\ Docs <= MaxCatalogDocs
  /\ Cardinality(issued) <= MaxTokens

NextCatalog ==
  \/ Sent
  \/ res = Idle /\ \E body \in AdminLogin : Login(body) /\ CatalogBounded'
  \/ res = Idle /\ \E ok \in BOOLEAN : GetProperties(ok)
  \/ res = Idle /\ \E a \in ClientHeaders, body \in PropertyBodies, ok \in BOOLEAN :
       PostProperty(a, body, ok) /\ CatalogBounded'
  \/ res = Idle /\ \E id \in Ids, ok \in BOOLEAN : GetProperty(id, ok)
  \/ res = Idle /\ \E a \in ClientHeaders, id \in Ids, body \in PropertyBodies, ok \in BOOLEAN :
       PutProperty(a, id, body, ok)
  \/ res = Idle /\ \E a \in ClientHeaders, id \in Ids, ok \in BOOLEAN :
       DeleteProperty(a, id, ok)
  \/ res = Idle /\ \E ok \in BOOLEAN : GetTeam(ok)
  \/ res = Idle /\ \E a \in ClientHeaders, body \in TeamBodies, ok \in BOOLEAN :
       PostTeam(a, body, ok) /\ CatalogBounded'
  \/ res = Idle /\ \E a \in ClientHeaders, id \in Ids, body \in TeamBodies, ok \in BOOLEAN :
       PutTeam(a, id, body, ok)
  \/ res = Idle /\ \E a \in ClientHeaders, id \in Ids, ok \in BOOLEAN :
       DeleteTeam(a, id, ok)

SpecCatalog == Init /\ [][NextCatalog]_vars

(* SpecForms: the Contact and Lead routes with every form body, as time     *)
(* passes on the first day; the admin logs in once, to read the leads.      *)
FormsBounded == Docs <= MaxFormDocs

NextForms ==
  \/ res = Idle /\ Tick /\ now' < StartMs + MsPerDay
  \/ Sent
  \/ res = Idle /\ issued = {} /\ \E body \in AdminLogin : Login(body)
  \/ res = Idle /\ \E body \in FormBodies, ok \in BOOLEAN : PostContact(body, ok) /\ FormsBounded'
  \/ res = Idle /\ \E ok \in BOOLEAN : GetContact(ok)
  \/ res = Idle /\ \E body \in FormBodies, ok \in BOOLEAN : PostLead(body, ok) /\ FormsBounded'
  \/ res = Idle /\ \E a \in ClientHeaders, ok \in BOOLEAN : GetLeads(a, ok)

SpecForms == Init /\ [][NextForms]_vars

---------------------------------------------------------------------------
(* Properties.  A step that serves a request leaves Idle: res = Idle, and   *)
(* req' and res' are the request and its response.                           *)

Range(f) == {f[i] : i \in DOMAIN f}
Count(f, d) == Cardinality({i \in DOMAIN f : f[i] = d})
SameDocs(f, g) ==
  Len(f) = Len(g) /\ \A d \in Range(f) \cup Range(g) : Count(f, d) = Count(g, d)

ProtectedRoutes ==
  {"POST /api/properties", "PUT /api/properties/:id", "DELETE /api/properties/:id",
   "POST /api/team", "PUT /api/team/:id", "DELETE /api/team/:id", "GET /api/leads"}

(* t is a token login handed out, less than 24 hours old on the seconds clock *)
ValidToken(t, ms) ==
  \E e \in issued : e.token = t /\ NowSec(ms) < NowSec(e.at) + SecPerDay

(* The header carries no token part, or one that is not a token of login's, *)
(* or one that has expired.                                                  *)
RejectedHeader(a, ms) == Len(a) < 2 \/ a[2] = Word("") \/ ~ValidToken(a[2], ms)

(* Authorization: Bearer <valid token> *)
BearerValid(a, ms) == Len(a) = 2 /\ a[1] = Word("Bearer") /\ ValidToken(a[2], ms)

(* C1: a request to a protected endpoint whose header has no token part, or *)
(* a token that does not verify, or an expired one, is answered 401 by the  *)
(* gate (whether or not the store would fail), carries no data out, and     *)
(* leaves every collection as it was.                                        *)
C1_RejectedShortCircuits ==
  [][ (/\ res = Idle
       /\ req'.route \in ProtectedRoutes
       /\ RejectedHeader(req'.authorization, now)) =>
          /\ res'.status = 401
          /\ res'.error \in {NoTokenProvided, InvalidToken}
          /\ res'.data = << >>
          /\ req'.n = 0
          /\ store' = store ]_vars

(* An expired token was refused on DELETE while the record it names is stored. *)
C1_Witness ==
  /\ req.route = "DELETE /api/properties/:id"
  /\ Len(req.authorization) = 2
  /\ \E e \in issued : e.token = req.authorization[2] /\ NowSec(now) >= e.token.exp
  /\ res = Err(401, InvalidToken)
  /\ Matches(Property, req.id) # {}

(* C2: in every state - whatever was stored, whoever logged in since - the  *)
(* gate accepts a token of login's exactly while the seconds clock is less  *)
(* than 24 hours past the second of its issuance.                            *)
C2_TokenWindow ==
  \A e \in issued :
    (verifyToken(<<Word("Bearer"), e.token>>, now) = "next")
      <=> (NowSec(now) < NowSec(e.at) + SecPerDay)

(* A token was refused at the very second it expired, although a later      *)
(* login had handed out another token, which is still good.                 *)
C2_Witness ==
  /\ req.route \in ProtectedRoutes
  /\ Len(req.authorization) = 2
  /\ \E e \in issued : /\ e.token = req.authorization[2]
                       /\ NowSec(now) = NowSec(e.at) + SecPerDay
  /\ \E e \in issued : NowSec(now) < NowSec(e.at) + SecPerDay
  /\ res = Err(401, InvalidToken)

AdminEmailGiven(body) == Has(body, "email") /\ body.email = ADMIN_EMAIL

(* C3, as claimed: with no hash configured every login is answered          *)
(* ConfigurationMissing and no token is issued.                              *)
C3_Original ==
  (ADMIN_PASSWORD_HASH = "" /\ req.route = "POST /api/auth/login") =>
     (res = Err(401, ConfigurationMissing) /\ issued = {})

(* C3, amended: with no hash configured no token is ever issued and every   *)
(* login is a 401: ConfigurationMissing for the admin email, and             *)
(* InvalidCredentials for a wrong or missing email.                          *)
C3_NoHashNoToken ==
  ADMIN_PASSWORD_HASH = "" =>
    /\ issued = {}
    /\ req.route = "POST /api/auth/login" =>
         res = Err(401, IF AdminEmailGiven(req.body) THEN ConfigurationMissing
                        ELSE InvalidCredentials)

C3_Witness ==
  /\ ADMIN_PASSWORD_HASH = ""
  /\ req.route = "POST /api/auth/login"
  /\ ~AdminEmailGiven(req.body)
  /\ res = Err(401, InvalidCredentials)

(* C4: a protected request whose header is absent or not of the form        *)
(* Bearer <token> is answered 401 "No token provided" - checked on the      *)
(* headers with no second part and on those whose second part is a valid,   *)
(* unexpired token.                                                          *)
NotBearerForm(a) == Len(a) < 2 \/ a[1] # Word("Bearer") \/ a[2] = Word("")
C4_NonBearerIsNoToken ==
  [][ (/\ res = Idle
       /\ req'.route \in ProtectedRoutes
       /\ NotBearerForm(req'.authorization)
       /\ Len(req'.authorization) >= 2 => ValidToken(req'.authorization[2], now))
          => res' = Err(401, NoTokenProvided) ]_vars

(* C5: a login body without email or without password, with a hash          *)
(* configured, is answered 401 "Invalid email or password".                 *)
C5_MissingFieldIsMismatch ==
  (/\ ADMIN_PASSWORD_HASH # ""
   /\ req.route = "POST /api/auth/login"
   /\ ~Has(req.body, "email") \/ ~Has(req.body, "password"))
     => res = Err(401, InvalidCredentials)

(* C6: with a valid token and a store that answers, PUT on an id that      *)
(* matches nothing is 404 "Team member not found" for the team and success  *)
(* for properties, and changes nothing; PUT on a team id that matches       *)
(* answers with the record as it is after the update.                        *)
C6_UpdateOfMissingId ==
  [][ (res = Idle /\ BearerValid(req'.authorization, now) /\ req'.storeOk) =>
        /\ (req'.route = "PUT /api/team/:id" /\ Matches(TeamMember, req'.id) = {}) =>
              (res' = Err(404, "Team member not found") /\ store' = store)
        /\ (req'.route = "PUT /api/properties/:id" /\ Matches(Property, req'.id) = {}) =>
              (res' = Success(<< >>) /\ store' = store)
        /\ (req'.route = "PUT /api/team/:id" /\ Matches(TeamMember, req'.id) # {}) =>
              \E i \in Matches(TeamMember, req'.id) :
                 /\ res' = Success(<<Merge(TeamMember[i], req'.body)>>)
                 /\ TeamMember' = [TeamMember EXCEPT ![i] = res'.data[1]] ]_vars

(* PUT /api/team/:id was answered 404 while other members are stored. *)
C6_Witness ==
  /\ req.route = "PUT /api/team/:id"
  /\ BearerValid(req.authorization, now)
  /\ res = Err(404, "Team member not found")
  /\ TeamMember # << >>

(* C9: with a valid token and a store that answers, DELETE reports success  *)
(* whether or not a record matched.                                          *)
C9_DeleteAlwaysSucceeds ==
  [][ (/\ res = Idle
       /\ req'.route \in {"DELETE /api/properties/:id", "DELETE /api/team/:id"}
       /\ BearerValid(req'.authorization, now)
       /\ req'.storeOk) => res' = Success(<< >>) ]_vars

(* A DELETE that matched nothing (as a second DELETE of the same id does)   *)
(* reported success.                                                         *)
C9_Witness ==
  /\ req.route = "DELETE /api/team/:id"
  /\ req.n = 0
  /\ TeamMember # << >>
  /\ res = Success(<< >>)

(* C10: once DELETE /api/properties/X has reported success, no record with  *)
(* id X is left in the collection.                                           *)
C10_DeletedIdIsGone ==
  (req.route = "DELETE /api/properties/:id" /\ res = Success(<< >>)) =>
     Matches(Property, req.id) = {}

FormOf(route, contact, lead) ==
  IF route \in {"POST /api/contact", "GET /api/contact"} THEN contact ELSE lead

(* C7: a successful POST /api/contact or /api/leads returns the stored      *)
(* record with a non-empty id made by the server from the clock, whatever   *)
(* id the body had; no record ever leaves either collection; and every      *)
(* list that is served holds exactly the records of its collection.         *)
C7_CreatedStaysListed ==
  [][ /\ (/\ res = Idle
          /\ req'.route \in {"POST /api/contact", "POST /api/leads"}
          /\ res'.status = 200) =>
             /\ Len(res'.data) = 1
             /\ Has(res'.data[1], "id")
             /\ res'.data[1].id # ""
             /\ res'.data[1].id = ToString(now)
             /\ FormOf(req'.route, Contact', Lead')
                  = Append(FormOf(req'.route, Contact, Lead), res'.data[1])
      /\ \A d \in Range(Contact) : Count(Contact', d) >= Count(Contact, d)
      /\ \A d \in Range(Lead) : Count(Lead', d) >= Count(Lead, d)
      /\ (/\ res = Idle
          /\ req'.route \in {"GET /api/contact", "GET /api/leads"}
          /\ res'.status = 200) => SameDocs(res'.data, FormOf(req'.route, Contact, Lead)) ]_vars

(* A list was served that holds two records, one of them created at an      *)
(* earlier time.                                                             *)
C7_Witness ==
  /\ req.route = "GET /api/contact"
  /\ res.status = 200
  /\ Len(res.data) >= 2
  /\ \E k \in DOMAIN res.data : res.data[k].id # ToString(now)

(* The clock reading a form record was created at: the one its id spells. *)
CreatedMs(d) == CHOOSE t \in Instants : ToString(t) = d.id

(* C8: a served list of contacts or leads is newest-first by the time the   *)
(* records were created (records created in the same millisecond in any     *)
(* order).                                                                    *)
C8_NewestFirst ==
  (req.route \in {"GET /api/contact", "GET /api/leads"} /\ res.status = 200) =>
     \A k, l \in DOMAIN res.data :
        k < l => CreatedMs(res.data[k]) >= CreatedMs(res.data[l])

=============================================================================
